---------------------------- MODULE Spec2Model ----------------------------
(***************************************************************************)
(* Branch-aware top-languages endpoint (api/top-langs-branch.js).          *)
(*                                                                         *)
(* The repository holds two variants of the same handler:                  *)
(*   "api"  : src/api/top-langs-branch.js (computes a percent per item)    *)
(*   "part" : src/unnamed/part_000        (attaches a color, debug dump)   *)
(* A JavaScript string is a sequence of one-character strings, so that     *)
(* toLowerCase, split and parseInt are computed and not assumed.  A        *)
(* JavaScript object is a sequence of <<key, value>> pairs in insertion    *)
(* order, which is the order Object.entries and the stable sort see.       *)
(* A query parameter is absent, a string, or (exclude_repos, hide) an      *)
(* array.  The handler is cut at its awaits: one action per upstream       *)
(* answer, each running the code up to the next fetch or to the response.  *)
(* The upstream chooses every answer freely; log and trees record what it  *)
(* answered.  Percents are exact fractions, not doubles.                   *)
(***************************************************************************)
EXTENDS Integers, Sequences, FiniteSets, TLC

(***************************************************************************)
(* Bounds of the model                                                     *)
(***************************************************************************)
\* longest page body the listing endpoint returns
MaxPageLen == 2
\* most repositories the discoverer keeps over one run
MaxKept == 2

(***************************************************************************)
(* Program constants                                                       *)
(***************************************************************************)
maxPages == 5
DefaultLangsCount == 6
MinLangsCount == 1
MaxLangsCount == 20
DefaultMaxRepos == 60
MinMaxRepos == 1
MaxMaxRepos == 300

\* an absent query parameter / undefined
Undefined == <<"undefined">>

(***************************************************************************)
(* Strings                                                                 *)
(***************************************************************************)
UpperChars == <<"A","B","C","D","E","F","G","H","I","J","K","L","M",
                "N","O","P","Q","R","S","T","U","V","W","X","Y","Z">>
LowerChars == <<"a","b","c","d","e","f","g","h","i","j","k","l","m",
                "n","o","p","q","r","s","t","u","v","w","x","y","z">>
Digits == <<"0","1","2","3","4","5","6","7","8","9">>

LowerChar(c) ==
  IF \E i \in 1..Len(UpperChars) : UpperChars[i] = c
  THEN LowerChars[CHOOSE i \in 1..Len(UpperChars) : UpperChars[i] = c]
  ELSE c

\* String.prototype.toLowerCase
toLowerCase(s) == [i \in 1..Len(s) |-> LowerChar(s[i])]

IsDigit(c) == \E i \in 1..Len(Digits) : Digits[i] = c
DigitVal(c) == (CHOOSE i \in 1..Len(Digits) : Digits[i] = c) - 1

\* the characters the regular expression [,\s] matches
IsSep(c) == c \in {",", " "}

\* s.split(/[,\s]+/).map(trim).filter(Boolean): the non-empty tokens of s
RECURSIVE SplitFrom(_, _, _)
SplitFrom(s, i, cur) ==
  IF i > Len(s)
  THEN IF cur = <<>> THEN <<>> ELSE <<cur>>
  ELSE IF IsSep(s[i])
       THEN (IF cur = <<>> THEN <<>> ELSE <<cur>>) \o SplitFrom(s, i + 1, <<>>)
       ELSE SplitFrom(s, i + 1, Append(cur, s[i]))

toArray(q) ==
  IF q = Undefined \/ q = <<>> THEN <<>> ELSE SplitFrom(q, 1, <<>>)

\* the truthy spellings toBool accepts
TrueWords == { <<"1">>, <<"t","r","u","e">>, <<"y","e","s">>, <<"y">>, <<"o","n">> }

toBool(q, def) ==
  IF q = Undefined THEN def ELSE toLowerCase(q) \in TrueWords

\* parseInt(s, 10): leading blanks, an optional sign, then decimal digits.
\* The result is <<n>>, or <<>> for NaN (no digit follows).
RECURSIVE SkipBlanks(_, _)
SkipBlanks(s, i) ==
  IF i <= Len(s) /\ s[i] = " " THEN SkipBlanks(s, i + 1) ELSE i

RECURSIVE DigitsFrom(_, _, _)
DigitsFrom(s, i, n) ==
  IF i <= Len(s) /\ IsDigit(s[i])
  THEN DigitsFrom(s, i + 1, 10 * n + DigitVal(s[i]))
  ELSE n

parseInt(s) ==
  LET i == SkipBlanks(s, 1)
      neg == i <= Len(s) /\ s[i] = "-"
      j == IF i <= Len(s) /\ s[i] \in {"-", "+"} THEN i + 1 ELSE i
  IN IF j <= Len(s) /\ IsDigit(s[j])
     THEN (IF neg THEN <<0 - DigitsFrom(s, j, 0)>> ELSE <<DigitsFrom(s, j, 0)>>)
     ELSE <<>>

\* parseInt(q, 10) || def: NaN and 0 are falsy
parseIntOr(q, def) ==
  LET n == parseInt(q) IN IF n = <<>> \/ n[1] = 0 THEN def ELSE n[1]

Min(a, b) == IF a < b THEN a ELSE b
Max(a, b) == IF a > b THEN a ELSE b

\* clampValue of src/common/utils.js (not among the sources)
clampValue(n, lo, hi) == Max(lo, Min(n, hi))

(***************************************************************************)
(* The language catalog (language-map): entries in Object.entries order.   *)
(* A value of <<>> for color stands for an entry without a color.          *)
(***************************************************************************)
Go == <<"G","o">>
Rust == <<"R","u","s","t">>
Python == <<"P","y","t","h","o","n">>
Text == <<"T","e","x","t">>
DefaultColor == <<"#","8","5","8","5","8","5">>

languageMap ==
  << [lang |-> Go,     extensions |-> << <<".","g","o">> >>,  color |-> <<"#","0">>],
     [lang |-> Rust,   extensions |-> << <<".","r","s">> >>,  color |-> <<"#","d">>],
     [lang |-> Python, extensions |-> << <<".","p","y">>, <<".","p","y","w">> >>,
                                                             color |-> <<"#","3">>],
     [lang |-> Text,   extensions |-> << <<".","t","x","t">> >>, color |-> <<>>] >>

\* filename.lastIndexOf("."), 0-based; -1 when there is none
lastIndexOfDot(s) ==
  LET hits == {i \in 1..Len(s) : s[i] = "."}
  IN IF hits = {} THEN 0 - 1 ELSE (CHOOSE i \in hits : \A j \in hits : j <= i) - 1

\* e.replace(/^\./, "")
stripDot(e) == IF Len(e) > 0 /\ e[1] = "." THEN SubSeq(e, 2, Len(e)) ELSE e

\* the language of a path, or Undefined (null)
extToLanguage(filename) ==
  LET idx == lastIndexOfDot(filename)
      ext == toLowerCase(SubSeq(filename, idx + 2, Len(filename)))
      claims(k) == \E n \in 1..Len(languageMap[k].extensions) :
                      stripDot(languageMap[k].extensions[n]) = ext
      hits == {k \in 1..Len(languageMap) : claims(k)}
  IN IF idx <= 0 \/ hits = {} THEN Undefined
     ELSE languageMap[CHOOSE k \in hits : \A m \in hits : k <= m].lang

\* languageMap[name]?.color || "#858585"
colorOf(name) ==
  LET hits == {k \in 1..Len(languageMap) : languageMap[k].lang = name}
  IN IF hits = {} THEN DefaultColor
     ELSE LET c == languageMap[CHOOSE k \in hits : TRUE].color
          IN IF c = <<>> THEN DefaultColor ELSE c

(***************************************************************************)
(* Objects: sequences of <<key, value>> in insertion order                 *)
(***************************************************************************)
Keys(obj) == {obj[i][1] : i \in 1..Len(obj)}

\* obj[k] || 0
Get(obj, k) ==
  IF k \in Keys(obj) THEN obj[CHOOSE i \in 1..Len(obj) : obj[i][1] = k][2] ELSE 0

\* a fold that overwrites instead of adding: obj[k] = v
AddToOverwrites(obj, k, v) ==
  IF k \in Keys(obj)
  THEN [obj EXCEPT ![CHOOSE i \in 1..Len(obj) : obj[i][1] = k] = <<k, v>>]
  ELSE Append(obj, <<k, v>>)

\* obj[k] = (obj[k] || 0) + v
AddTo(obj, k, v) ==
  IF k \in Keys(obj)
  THEN [obj EXCEPT ![CHOOSE i \in 1..Len(obj) : obj[i][1] = k] = <<k, Get(obj, k) + v>>]
  ELSE Append(obj, <<k, v>>)

\* one iteration of the loop over the tree
addItem(totals, item) ==
  IF item.type # "blob" THEN totals
  ELSE IF "size" \notin DOMAIN item THEN totals
  ELSE LET lang == extToLanguage(item.path)
       IN IF lang = Undefined THEN totals ELSE AddTo(totals, lang, item.size)

RECURSIVE foldTree(_, _, _)
foldTree(totals, tree, i) ==
  IF i > Len(tree) THEN totals ELSE foldTree(addItem(totals, tree[i]), tree, i + 1)

aggregateByLanguageFromTree(tree) == foldTree(<<>>, tree, 1)

\* for (const [k, v] of Object.entries(byLang)) grand[k] = (grand[k] || 0) + v
RECURSIVE mergeInto(_, _, _)
mergeInto(grand, byLang, i) ==
  IF i > Len(byLang) THEN grand
  ELSE mergeInto(AddTo(grand, byLang[i][1], byLang[i][2]), byLang, i + 1)

\* one iteration of aggregateRepos once the tree of the repository is known
addRepoTree(grand, tree) ==
  IF Len(tree) = 0 THEN grand
  ELSE mergeInto(grand, aggregateByLanguageFromTree(tree), 1)

(***************************************************************************)
(* The upstream service: what the three endpoints may answer               *)
(***************************************************************************)
\* repositories the listing endpoint knows (full_name is "owner/name")
RepoX == [full_name |-> <<"o","/","x">>, fork |-> FALSE, archived |-> FALSE]
RepoY == [full_name |-> <<"o","/","Y">>, fork |-> FALSE, archived |-> FALSE]
RepoF == [full_name |-> <<"o","/","f">>, fork |-> TRUE,  archived |-> TRUE]
Repos == {RepoX, RepoY, RepoF}

\* page bodies: up to MaxPageLen distinct repositories
PageBodies ==
  UNION {{b \in [1..n -> Repos] : \A i, j \in 1..n : i # j => b[i] # b[j]} :
         n \in 1..MaxPageLen}

\* isArray |-> FALSE is a body that is not an array
ListResponses ==
  {[status |-> st, isArray |-> FALSE, body |-> <<>>] : st \in {404, 500}}
  \cup {[status |-> 200, isArray |-> TRUE, body |-> b] : b \in PageBodies \cup {<<>>}}
  \cup {[status |-> 200, isArray |-> FALSE, body |-> <<>>]}

\* recursive trees of a commit
TreeA == << [type |-> "blob", path |-> <<"m",".","g","o">>, size |-> 100] >>
TreeB == << [type |-> "blob", path |-> <<"a",".","G","O">>, size |-> 50],
            [type |-> "tree", path |-> <<"d",".","g","o">>],
            [type |-> "blob", path |-> <<"l",".","r","s">>, size |-> 30],
            [type |-> "blob", path |-> <<".","p","y">>, size |-> 7],
            [type |-> "blob", path |-> <<"n",".","r","s">>],
            [type |-> "blob", path |-> <<"R","E","A","D">>, size |-> 5],
            [type |-> "blob", path |-> <<"x",".","p","y">>, size |-> 10] >>
TreeZ == << [type |-> "blob", path |-> <<"i",".","p","y">>, size |-> 0] >>
Trees == {TreeA, TreeB, TreeZ}

BranchResponses ==
  {[status |-> st, sha |-> FALSE] : st \in {404, 409, 500}}
  \cup {[status |-> 200, sha |-> h] : h \in BOOLEAN}

\* hasTree |-> FALSE is a body without a tree field
TreeResponses ==
  {[status |-> st, hasTree |-> FALSE, tree |-> <<>>] : st \in {404, 409, 500}}
  \cup {[status |-> 200, hasTree |-> TRUE, tree |-> t] : t \in Trees}
  \cup {[status |-> 200, hasTree |-> FALSE, tree |-> <<>>]}

Ok(r) == r.status = 200

(***************************************************************************)
(* State                                                                   *)
(***************************************************************************)
VARIABLES
  variant,        \* which file serves the request: "api" or "part"
  token,          \* process.env.PAT_1 is set
  query,          \* req.query
  pc,             \* where the handler waits: start, list, branch, tree, rank, done
  page,           \* fetchAllUserRepos: page
  acc,            \* fetchAllUserRepos: acc
  repoFullNames,  \* handler: repoFullNames
  idx,            \* aggregateRepos: position in repoFullNames
  grand,          \* aggregateRepos: grand
  log,            \* upstream calls answered so far, in order
  trees,          \* what fetchRepoTreeByBranch returned for each position so far
  res,            \* the response
  out             \* what the handler computed for the renderer

vars == <<variant, token, query, pc, page, acc, repoFullNames, idx, grand,
          log, trees, res, out>>

NoRes == [status |-> 0, type |-> "", body |-> ""]
NoOut == [totals |-> <<>>, topN |-> 0, items |-> <<>>, rendered |-> FALSE]

\* a query parameter given several times arrives as an array
ArrayValue == <<"array">>

\* destructuring default: q when present, else def
Default(q, def) == IF q = Undefined THEN def ELSE q

(***************************************************************************)
(* handler: the steps after the last upstream answer                       *)
(***************************************************************************)
\* for (const k of Object.keys(totals)) if (hideList.has(k.toLowerCase())) delete totals[k]
hideTotals(totals, hideList) ==
  SelectSeq(totals, LAMBDA e : toLowerCase(e[1]) \notin hideList)

\* Object.entries(totals).sort((a, b) => b[1] - a[1]): stable, descending
RECURSIVE insertDesc(_, _)
insertDesc(sorted, e) ==
  IF sorted = <<>> THEN <<e>>
  ELSE IF sorted[Len(sorted)][2] >= e[2] THEN Append(sorted, e)
  ELSE Append(insertDesc(SubSeq(sorted, 1, Len(sorted) - 1), e), sorted[Len(sorted)])

RECURSIVE sortFrom(_, _, _)
sortFrom(sorted, entries, i) ==
  IF i > Len(entries) THEN sorted
  ELSE sortFrom(insertDesc(sorted, entries[i]), entries, i + 1)

sortDesc(entries) == sortFrom(<<>>, entries, 1)

\* clampValue(parseInt(langs_count, 10) || 6, 1, 20)
topNOf(q) ==
  clampValue(parseIntOr(Default(q.langs_count, <<"6">>), DefaultLangsCount),
             MinLangsCount, MaxLangsCount)

\* clampValue(parseInt(max_repos, 10) || 60, 1, 300)
maxReposOf(q) ==
  clampValue(parseIntOr(Default(q.max_repos, <<"6","0">>), DefaultMaxRepos),
             MinMaxRepos, MaxMaxRepos)

\* sorted.slice(0, n)
slice(sq, n) == SubSeq(sq, 1, Min(n, Len(sq)))

RECURSIVE sumSizes(_, _)
sumSizes(top, i) == IF i > Len(top) THEN 0 ELSE top[i][2] + sumSizes(top, i + 1)

RECURSIVE gcd(_, _)
gcd(a, b) == IF b = 0 THEN a ELSE gcd(b, a % b)

\* the rational n / d in lowest terms (d > 0); percents are kept exact
Frac(n, d) == [num |-> n \div gcd(n, d), den |-> d \div gcd(n, d)]

\* totalBytes ? (size / totalBytes) * 100 : 0
percentOf(size, totalBytes) ==
  IF totalBytes # 0 THEN Frac(size * 100, totalBytes) ELSE Frac(0, 1)

\* a denominator taken over every language left after hiding
totalBytesOfAll(sorted, top) == sumSizes(sorted, 1)

\* top.reduce((acc, [, v]) => acc + v, 0)
totalBytesOf(sorted, top) == sumSizes(top, 1)

\* the items built from top, per variant
itemsOf(v, top, totalBytes) ==
  IF v = "api"
  THEN [i \in 1..Len(top) |->
          [name |-> top[i][1], size |-> top[i][2],
           percent |-> percentOf(top[i][2], totalBytes)]]
  ELSE [i \in 1..Len(top) |->
          [name |-> top[i][1], size |-> top[i][2], color |-> colorOf(top[i][1])]]

\* hideList = new Set(toArray(hide).map(x => x.toLowerCase()))
lowerSet(tokens) == {toLowerCase(tokens[i]) : i \in 1..Len(tokens)}

\* what the handler computes from the grand totals
rank(v, q, totals0) ==
  LET totals == hideTotals(totals0, lowerSet(toArray(Default(q.hide, <<>>))))
      sorted == sortDesc(totals)
      topN == topNOf(q)
      top == slice(sorted, topN)
  IN [totals |-> totals, topN |-> topN,
      items |-> itemsOf(v, top, totalBytesOf(sorted, top)), rendered |-> TRUE]

\* renderTopLanguages of src/cards/top-languages-card.js (not among the
\* sources): it returns the card, an SVG document, for any list of items
renderTopLanguages(items, langs_count) == "svg"

\* res.status(200).send(...): the debug dump exists in the "part" variant only
successRes(v, q, svg) ==
  IF v = "part" /\ toBool(q.debug, FALSE)
  THEN [status |-> 200, type |-> "application/json", body |-> "dump"]
  ELSE [status |-> 200, type |-> "image/svg+xml", body |-> svg]

errorRes(st, msg) == [status |-> st, type |-> "", body |-> msg]

\* steps 2 (hide), 3 (top N), 4 (render) and the answer
Finished(totals0) ==
  LET o == rank(variant, query, totals0)
  IN [pc |-> "done", out |-> o,
      res |-> successRes(variant, query, renderTopLanguages(o.items, o.topN))]

\* the catch block of the handler
Failed == [pc |-> "done", res |-> errorRes(500, "Error"), out |-> NoOut]

\* an early return with a status and a message
Refused(st, msg) == [pc |-> "done", res |-> errorRes(st, msg), out |-> NoOut]

\* the handler waits for an upstream answer
Waiting(at) == [pc |-> at, res |-> NoRes, out |-> NoOut]

(***************************************************************************)
(* handler: from the request to the first upstream call                    *)
(***************************************************************************)
\* !user
NoUser(q) == q.user = Undefined \/ q.user = <<>>

\* toArray(q) throws on a value that has no split method
toArrayThrows(q) == q = ArrayValue

ParseThrows(q) == toArrayThrows(q.exclude_repos) \/ toArrayThrows(q.hide)

\* a handler that never looks at the credential
startOfNoCredentialCheck(v, tok, q) ==
  IF NoUser(q) THEN Refused(400, "Provide ?user=username")
  ELSE IF ParseThrows(q) THEN Failed
  ELSE Waiting("list")

\* a handler that looks at user before the credential
startOfUserFirst(v, tok, q) ==
  IF NoUser(q) THEN Refused(400, "Provide ?user=username")
  ELSE IF ~tok THEN Refused(500, "PAT_1 env not set")
  ELSE IF ParseThrows(q) THEN Failed
  ELSE Waiting("list")

\* the checks of the handler, in the order of each variant
startOf(v, tok, q) ==
  IF ~tok THEN Refused(500, "PAT_1 env not set")
  ELSE IF v = "api"
       THEN IF ParseThrows(q) THEN Failed
            ELSE IF NoUser(q) THEN Refused(400, "Provide ?user=username")
            ELSE Waiting("list")
       ELSE IF NoUser(q) THEN Refused(400, "Provide ?user=username")
            ELSE IF ParseThrows(q) THEN Failed
            ELSE Waiting("list")

Start ==
  /\ pc = "start"
  /\ LET c == startOf(variant, token, query)
     IN /\ pc' = c.pc
        /\ res' = c.res
        /\ out' = c.out
  /\ page' = 1
  /\ acc' = <<>>
  /\ UNCHANGED <<variant, token, query, repoFullNames, idx, grand, log, trees>>

(***************************************************************************)
(* fetchAllUserRepos, one page answer at a time, and the filter after it   *)
(***************************************************************************)
\* the fork / archive filter of one page
keepRepo(q, repo) ==
  /\ ~(~toBool(q.include_forks, FALSE) /\ repo.fork)
  /\ ~(~toBool(q.include_archived, FALSE) /\ repo.archived)

\* s.split("/"): the segments of s, empty ones kept
RECURSIVE splitSlash(_, _, _)
splitSlash(s, i, cur) ==
  IF i > Len(s) THEN <<cur>>
  ELSE IF s[i] = "/" THEN <<cur>> \o splitSlash(s, i + 1, <<>>)
  ELSE splitSlash(s, i + 1, Append(cur, s[i]))

\* a name part compared as it is spelled
nameOfCaseSensitive(full) ==
  LET segs == splitSlash(full, 1, <<>>)
  IN IF Len(segs) >= 2 THEN segs[2] ELSE <<>>

\* full.split("/")[1]?.toLowerCase() || ""
nameOf(full) ==
  LET segs == splitSlash(full, 1, <<>>)
  IN IF Len(segs) >= 2 THEN toLowerCase(segs[2]) ELSE <<>>

\* exclude = new Set(toArray(exclude_repos).map(x => x.toLowerCase()))
excludeOf(q) == lowerSet(toArray(Default(q.exclude_repos, <<>>)))

\* listed.map(full_name).filter(not excluded).slice(0, maxRepos)
targetsOf(q, listed) ==
  slice(SelectSeq([i \in 1..Len(listed) |-> listed[i].full_name],
                  LAMBDA full : nameOf(full) \notin excludeOf(q)),
        maxReposOf(q))

\* const [owner, repo] = full.split("/"); if (!owner || !repo) continue
wellFormed(full) ==
  LET segs == splitSlash(full, 1, <<>>)
  IN Len(segs) >= 2 /\ segs[1] # <<>> /\ segs[2] # <<>>

\* the next position of aggregateRepos that issues a branch lookup
nextPos(rfn, i) ==
  LET ok == {j \in i..Len(rfn) : wellFormed(rfn[j])}
  IN IF ok = {} THEN Len(rfn) + 1 ELSE CHOOSE j \in ok : \A k \in ok : j <= k

\* aggregateRepos at position i with the totals g
loopAt(rfn, g, i) ==
  IF nextPos(rfn, i) > Len(rfn) THEN Finished(g) ELSE Waiting("branch")

\* the handler once fetchAllUserRepos returned listed
afterListing(q, listed) ==
  IF targetsOf(q, listed) = <<>>
  THEN Refused(404, "No repositories to analyze after filters.")
  ELSE loopAt(targetsOf(q, listed), <<>>, 1)

\* a loop that stops on a page the fork / archive filter empties
morePagesAfterFilter(r) ==
  r.isArray /\ Len(SelectSeq(r.body, LAMBDA repo : keepRepo(query, repo))) # 0

\* the loop goes on after this page: it is an array and holds an item
morePages(r) == r.isArray /\ Len(r.body) # 0

\* while (page <= maxPages) fails for the page after p
lastPage(p) == p + 1 > maxPages

ListPage ==
  /\ pc = "list"
  /\ \E r \in ListResponses :
       LET kept == SelectSeq(r.body, LAMBDA repo : keepRepo(query, repo))
           more == Ok(r) /\ morePages(r)
           acc2 == IF more THEN acc \o kept ELSE acc
           ended == ~more \/ lastPage(page)
           c == IF ~Ok(r) THEN Failed
                ELSE IF ended THEN afterListing(query, acc2)
                ELSE Waiting("list")
       IN /\ Len(acc2) <= MaxKept
          /\ log' = Append(log, [kind |-> "list", arg |-> page, status |-> r.status,
                                  empty |-> Len(r.body) = 0])
          /\ acc' = acc2
          /\ page' = IF more THEN page + 1 ELSE page
          /\ repoFullNames' = IF Ok(r) /\ ended THEN targetsOf(query, acc2) ELSE <<>>
          /\ idx' = IF Ok(r) /\ ended THEN nextPos(targetsOf(query, acc2), 1) ELSE 0
          /\ pc' = c.pc
          /\ res' = c.res
          /\ out' = c.out
  /\ UNCHANGED <<variant, token, query, grand, trees>>

(***************************************************************************)
(* aggregateRepos / fetchRepoTreeByBranch, one upstream answer at a time   *)
(***************************************************************************)
\* fetchRepoTreeByBranch returned tree for position idx
Resolved(tree) ==
  LET g == addRepoTree(grand, tree)
      c == loopAt(repoFullNames, g, idx + 1)
  IN /\ grand' = g
     /\ trees' = Append(trees, [pos |-> idx, tree |-> tree, grand |-> g])
     /\ idx' = nextPos(repoFullNames, idx + 1)
     /\ pc' = c.pc
     /\ res' = c.res
     /\ out' = c.out

\* fetchRepoTreeByBranch threw
Threw ==
  /\ pc' = Failed.pc
  /\ res' = Failed.res
  /\ out' = Failed.out
  /\ UNCHANGED <<grand, trees, idx>>

\* a resolver for which a missing branch is an error
branchStepNotFoundThrows(r) ==
  IF ~Ok(r) THEN "throw" ELSE IF ~r.sha THEN "empty" ELSE "fetch"

\* what fetchRepoTreeByBranch does with the answer to the branch lookup
branchStep(r) ==
  IF ~Ok(r)
  THEN IF r.status = 404 THEN "empty" ELSE "throw"
  ELSE IF ~r.sha THEN "empty" ELSE "fetch"

\* a resolver that takes every failed tree fetch for an empty repository
treeStepSwallows(r) == IF ~Ok(r) THEN "empty" ELSE "tree"

\* what fetchRepoTreeByBranch does with the answer to the tree fetch
treeStep(r) ==
  IF ~Ok(r)
  THEN IF r.status = 409 THEN "empty" ELSE "throw"
  ELSE "tree"

BranchLookup ==
  /\ pc = "branch"
  /\ \E r \in BranchResponses :
       /\ log' = Append(log, [kind |-> "branch", arg |-> idx, status |-> r.status,
                               empty |-> FALSE])
       /\ CASE branchStep(r) = "empty" -> Resolved(<<>>)
            [] branchStep(r) = "throw" -> Threw
            [] OTHER -> /\ pc' = "tree"
                        /\ UNCHANGED <<grand, trees, idx, res, out>>
  /\ UNCHANGED <<variant, token, query, page, acc, repoFullNames>>

TreeFetch ==
  /\ pc = "tree"
  /\ \E r \in TreeResponses :
       /\ log' = Append(log, [kind |-> "tree", arg |-> idx, status |-> r.status,
                               empty |-> FALSE])
       /\ CASE treeStep(r) = "empty" -> Resolved(<<>>)
            [] treeStep(r) = "throw" -> Threw
            [] OTHER -> Resolved(IF r.hasTree THEN r.tree ELSE <<>>)
  /\ UNCHANGED <<variant, token, query, page, acc, repoFullNames>>

(***************************************************************************)
(* Requests                                                                *)
(***************************************************************************)
DefaultQuery ==
  [user |-> <<"o">>, exclude_repos |-> Undefined, include_forks |-> Undefined,
   include_archived |-> Undefined, hide |-> Undefined, langs_count |-> Undefined,
   max_repos |-> Undefined, debug |-> Undefined]

\* the values of hide and langs_count the requests try together
RankParams ==
  { <<<<"G","O">>, <<"1">>>>,
    <<<<"g","o"," ","r","u","s","t">>, <<"2">>>>,
    <<Undefined, <<"0">>>>,
    <<Undefined, <<"2">>>>,
    <<Undefined, <<"5","0","0">>>>,
    <<<<"G","O">>, <<"-","3">>>>,
    <<Undefined, <<"x">>>> }

\* the requests: one family per group of parameters, the others left out
Queries ==
  {[DefaultQuery EXCEPT !.user = u, !.exclude_repos = e] :
      u \in {Undefined, <<>>, <<"o">>}, e \in {Undefined, ArrayValue}}
  \cup {[DefaultQuery EXCEPT !.exclude_repos = e, !.max_repos = m] :
      e \in {<<>>, <<"y">>, <<"X",","," ","y">>}, m \in {Undefined, <<"1">>}}
  \cup {[DefaultQuery EXCEPT !.include_forks = f, !.include_archived = a] :
      f \in {Undefined, <<"Y","e","s">>}, a \in {Undefined, <<"1">>, <<"n","o">>}}
  \cup {[DefaultQuery EXCEPT !.hide = hn[1], !.langs_count = hn[2]] : hn \in RankParams}
  \cup {[DefaultQuery EXCEPT !.debug = d, !.hide = h] :
      d \in {<<"t","r","u","e">>, <<"0">>}, h \in {Undefined, ArrayValue}}

Init ==
  /\ variant \in {"api", "part"}
  /\ token \in BOOLEAN
  /\ query \in Queries
  /\ pc = "start"
  /\ page = 1
  /\ acc = <<>>
  /\ repoFullNames = <<>>
  /\ idx = 0
  /\ grand = <<>>
  /\ log = <<>>
  /\ trees = <<>>
  /\ res = NoRes
  /\ out = NoOut

Next == Start \/ ListPage \/ BranchLookup \/ TreeFetch

Spec == Init /\ [][Next]_vars

(***************************************************************************)
(* Vocabulary of the properties                                            *)
(***************************************************************************)
Done == pc = "done"
Succeeded == Done /\ res.status = 200
Positions == 1..Len(repoFullNames)
ListLog == SelectSeq(log, LAMBDA e : e.kind = "list")

\* a non-success answer that is not one of the two expected-empty cases
HardFailure(e) ==
  /\ e.status # 200
  /\ ~(e.kind = "branch" /\ e.status = 404)
  /\ ~(e.kind = "tree" /\ e.status = 409)

UpstreamFailed == \E n \in 1..Len(log) : HardFailure(log[n])

Answered(kind, p, st) ==
  \E n \in 1..Len(log) : log[n].kind = kind /\ log[n].arg = p /\ log[n].status = st

\* a call of this kind for position p was issued: answered, or in flight
Issued(kind, p) ==
  \/ \E n \in 1..Len(log) : log[n].kind = kind /\ log[n].arg = p
  \/ pc = kind /\ idx = p

\* the totals before the k-th resolved tree was folded in
GrandBefore(k) == IF k = 1 THEN <<>> ELSE trees[k - 1].grand

\* the object read as a map from key to value
AsMap(obj) == [k \in Keys(obj) |-> Get(obj, k)]

RECURSIVE SumOver(_, _)
SumOver(f, S) ==
  IF S = {} THEN 0
  ELSE LET x == CHOOSE y \in S : TRUE IN f[x] + SumOver(f, S \ {x})

\* C1: while PAT_1 is not configured the handler answers 500 whatever the
\* other parameters are, and no upstream call is issued before the answer.
C1_NoCredentialAnswers500 ==
  ~token => /\ log = <<>>
            /\ pc \in {"start", "done"}
            /\ Done => res.status = 500

C1_Witness == ~token /\ Done /\ query.user = <<>> /\ res.status = 500

\* C2 as stated: every request without user ends in 400 whether or not the
\* credential is configured, and the configuration error is only reached by
\* requests that carry a user.
C2_UserCheckedFirst ==
  /\ (Done /\ NoUser(query)) => res.status = 400
  /\ (Done /\ res.body = "PAT_1 env not set") => ~NoUser(query)

\* C2 amended: the credential is checked first and user second: every request
\* without the credential ends in the configuration error (500) whether or
\* not it carries a user, and the missing-parameter answer (400) is only
\* reached by requests whose credential is configured and that carry no user.
C2_CredentialCheckedFirst ==
  /\ (Done /\ ~token) => res = errorRes(500, "PAT_1 env not set")
  /\ res.status = 400 => (token /\ NoUser(query))
  /\ res.body = "PAT_1 env not set" => ~token

C2_Witness ==
  /\ Done /\ ~token /\ query.user = Undefined
  /\ res = errorRes(500, "PAT_1 env not set")

\* C3: a repository whose branch lookup answers 404 gets no tree fetch; one
\* whose tree fetch answers 409 has an empty tree; either adds nothing to the
\* grand total, the run goes on with the repositories after it, and the
\* request ends with 200 when no other upstream call fails.
C3_ExpectedEmptyIsSkipped ==
  \A p \in Positions :
    (Answered("branch", p, 404) \/ Answered("tree", p, 409)) =>
      /\ Answered("branch", p, 404) => ~Issued("tree", p)
      /\ \E k \in 1..Len(trees) :
           /\ trees[k].pos = p
           /\ trees[k].tree = <<>>
           /\ trees[k].grand = GrandBefore(k)
      /\ ~Done => (pc \in {"branch", "tree"} /\ idx > p /\ idx \in Positions)
      /\ (Done /\ ~UpstreamFailed) =>
           /\ res.status = 200
           /\ \A q \in Positions : Issued("branch", q)

C3_Witness ==
  /\ Succeeded
  /\ Answered("branch", 1, 404)
  /\ Answered("tree", 2, 409)
  /\ Len(repoFullNames) = 2

\* C4: a non-success answer other than branch 404 and tree 409 ends the whole
\* request with 500: the call is not repeated, no later call is issued, and
\* neither a card nor partial totals are returned.
C4_HardFailureAborts ==
  \A n \in 1..Len(log) :
    HardFailure(log[n]) =>
      /\ n = Len(log)
      /\ Done
      /\ res.status = 500
      /\ res.body \notin {"svg", "dump"}
      /\ out = NoOut
      /\ \A m \in 1..Len(log) :
           (log[m].kind = log[n].kind /\ log[m].arg = log[n].arg) => m = n

C4_Witness ==
  /\ Done /\ res.status = 500
  /\ Len(trees) = 1 /\ trees[1].grand # <<>>
  /\ log[Len(log)].kind = "tree" /\ log[Len(log)].status = 500

\* the tokens of exclude_repos, and whether the name part of full equals one
\* of them when letter case is ignored
ExcludeTokens == toArray(Default(query.exclude_repos, <<>>))

NamePart(full) ==
  LET segs == splitSlash(full, 1, <<>>) IN IF Len(segs) >= 2 THEN segs[2] ELSE <<>>

Excluded(full) ==
  \E t \in 1..Len(ExcludeTokens) :
    toLowerCase(ExcludeTokens[t]) = toLowerCase(NamePart(full))

ListingReturned == pc \in {"branch", "tree", "done"} /\ token /\ ~NoUser(query) /\
                   Len(log) > 0 /\ \A n \in 1..Len(log) : ~(log[n].kind = "list" /\ log[n].status # 200)

\* C5: no branch lookup and no tree fetch is ever issued for a discovered
\* repository whose name equals, case ignored, a name of exclude_repos; and
\* when exclusion and the fork / archive filter leave no repository, the
\* request ends with 404 without any tree resolution.
C5_ExcludedNeverResolved ==
  /\ \A n \in 1..Len(log) :
       log[n].kind \in {"branch", "tree"} => ~Excluded(repoFullNames[log[n].arg])
  /\ pc \in {"branch", "tree"} => ~Excluded(repoFullNames[idx])
  /\ \A i \in 1..Len(acc) :
       Excluded(acc[i].full_name) =>
         \A p \in Positions : repoFullNames[p] # acc[i].full_name
  /\ (ListingReturned /\ \A i \in 1..Len(acc) : Excluded(acc[i].full_name)) =>
       /\ Done /\ res.status = 404
       /\ \A n \in 1..Len(log) : log[n].kind = "list"

C5_Witness ==
  /\ Succeeded
  /\ query.exclude_repos = <<"y">>
  /\ \E i \in 1..Len(acc) : acc[i] = RepoY
  /\ Len(repoFullNames) = 1
  /\ Len(trees) = 1

\* C6: pages are requested one at a time in the order 1, 2, ...; at most 5
\* are requested; a page with zero items (before the fork / archive filter)
\* is the last one, a page that holds items is not, however many the filter
\* keeps; a non-success page is the last one and fails the request.
C6_Paging ==
  LET L == ListLog IN
  /\ \A k \in 1..Len(L) : L[k].arg = k /\ log[k] = L[k]
  /\ Len(L) + (IF pc = "list" THEN 1 ELSE 0) <= 5
  /\ pc = "list" => page = Len(L) + 1
  /\ \A k \in 1..Len(L) :
       /\ (L[k].status = 200 /\ L[k].empty) => (k = Len(L) /\ pc # "list")
       /\ (L[k].status = 200 /\ ~L[k].empty /\ k < 5) => (k < Len(L) \/ pc = "list")
       /\ L[k].status # 200 =>
            /\ k = Len(log)
            /\ Done /\ res.status = 500
            /\ repoFullNames = <<>>

C6_Witness ==
  /\ Len(ListLog) = 5
  /\ \A k \in 1..5 : ListLog[k].status = 200 /\ ~ListLog[k].empty
  /\ acc = <<>>
  /\ Done

\* the requested langs_count: the number given, 6 when none is given
RequestedLangs ==
  LET n == parseInt(Default(query.langs_count, <<"6">>))
  IN IF n = <<>> THEN 6 ELSE n[1]

ClampedLangs ==
  IF RequestedLangs < 1 THEN 1 ELSE IF RequestedLangs > 20 THEN 20 ELSE RequestedLangs

HideNames ==
  LET t == toArray(Default(query.hide, <<>>)) IN {toLowerCase(t[i]) : i \in 1..Len(t)}

ItemNames == {out.items[i].name : i \in 1..Len(out.items)}

\* C7: the ranked list holds no hidden language, is ordered by non-increasing
\* total, holds only languages at least as large as every non-hidden language
\* left out, and has at most topN items, topN being the requested value
\* clamped into [1,20].
C7_RankedTopN ==
  Succeeded =>
    /\ \A i \in 1..Len(out.items) : toLowerCase(out.items[i].name) \notin HideNames
    /\ \A i, j \in 1..Len(out.items) : i < j => out.items[i].size >= out.items[j].size
    /\ \A k \in Keys(grand) :
         (toLowerCase(k) \notin HideNames /\ k \notin ItemNames) =>
           \A i \in 1..Len(out.items) : out.items[i].size >= Get(grand, k)
    /\ Len(out.items) <= ClampedLangs

ItemsTotal == SumOver([i \in 1..Len(out.items) |-> out.items[i].size], 1..Len(out.items))

\* percent, an exact rational, equals 100 * size / total
PercentIs(it, total) ==
  /\ it.percent.den > 0
  /\ it.percent.num * total = 100 * it.size * it.percent.den

RECURSIVE OwnFrom(_)
OwnFrom(i) ==
  IF i > Len(trees) THEN <<>>
  ELSE <<aggregateByLanguageFromTree(trees[i].tree)>> \o OwnFrom(i + 1)

\* the own totals folded in the order f
RECURSIVE FoldIn(_, _, _, _)
FoldIn(g, own, f, i) ==
  IF i > Len(own) THEN g ELSE FoldIn(mergeInto(g, own[f[i]], 1), own, f, i + 1)

\* C9: the grand totals are the same map for every order in which the
\* repositories are processed, and equal the per-language sum of each
\* repository's own totals.
C9_GrandIsOrderFreeSum ==
  LET own == OwnFrom(1)
      Langs == UNION {Keys(own[k]) : k \in 1..Len(trees)}
      map == AsMap(grand)
  IN /\ DOMAIN map = Langs
     /\ \A l \in Langs :
          map[l] = SumOver([k \in 1..Len(trees) |-> Get(own[k], l)], 1..Len(trees))
     /\ \A f \in Permutations(1..Len(trees)) : AsMap(FoldIn(<<>>, own, f, 1)) = map

C9_Witness ==
  /\ Len(trees) = 2
  /\ trees[1].tree = TreeB /\ trees[2].tree = TreeA
  /\ AsMap(grand) = AsMap(<< <<Go, 150>>, <<Rust, 30>>, <<Python, 10>> >>)

\* C10: every item of the ranked list of a successful request has a size
\* above 0, whatever trees the upstream returns.
C10_ItemsArePositive ==
  Succeeded => \A i \in 1..Len(out.items) : out.items[i].size > 0

=============================================================================
